---- MODULE Spec2Model ----
(***************************************************************************)
(* Shamir's Secret Sharing over GF(2^8): the field arithmetic of gf256.rs, *)
(* the polynomial operations of poly.rs and split/combine of lib.rs.       *)
(* Every function of the crate is pure; a behaviour draws the arguments of *)
(* one call in its initial state and then applies the function to them.    *)
(* A Rust panic is the result Panicked.                                    *)
(***************************************************************************)
EXTENDS Integers, Sequences, FiniteSets, TLC

VARIABLES
    pc,      \* "ready" before the call, afterwards the name of the function that ran
    args,    \* the arguments drawn for the call (and the output of the rng)
    ret,     \* the result of the last call: Ok(value) or Panicked
    steps,   \* the table scans the last gf256 call executed, in order
    polys,   \* split: the polynomials generated, one per byte of the secret
    splits,  \* the share map returned by split, kept for the combine that follows
    shares,  \* the share map handed to combine
    iter     \* the order in which the HashMap handed to combine iterates

vars == <<pc, args, ret, steps, polys, splits, shares, iter>>

\* u8
Byte == 0 .. 255

Ok(v) == [panic |-> FALSE, val |-> v]

Panicked == [panic |-> TRUE, val |-> <<>>]

NoRet == [panic |-> FALSE, val |-> <<>>]

----------------------------------------------------------------------------
(* Integer operations of the target.                                       *)

\* width of usize/isize
UsizeBits == 64

\* the ^ operator on unsigned integers
RECURSIVE Xor(_, _)
Xor(x, y) ==
    IF x = 0 THEN y
    ELSE IF y = 0 THEN x
    ELSE ((x + y) % 2) + 2 * Xor(x \div 2, y \div 2)

XorTbl == [x \in Byte |-> [y \in Byte |-> Xor(x, y)]]

\* ^ on two u8
BXor(x, y) == XorTbl[x][y]

RECURSIVE count_ones(_)
count_ones(z) == IF z = 0 THEN 0 ELSE (z % 2) + count_ones(z \div 2)

\* usize::count_zeros
count_zeros(z) == UsizeBits - count_ones(z)

\* 1.wrapping_shr(s): the shift amount is taken modulo the width, and 1 >> r
\* is 1 for r = 0 and 0 for every r >= 1
one_wrapping_shr(s) == IF s % UsizeBits = 0 THEN 1 ELSE 0

----------------------------------------------------------------------------
(* gf256.rs                                                                *)

\* 0x11b prime polynomial and 0x03 as generator; EXP[i + 1] is Rust's EXP[i]
EXP == <<
    1, 3, 5, 15, 17, 51, 85, 255, 26, 46, 114, 150, 161, 248, 19, 53,
    95, 225, 56, 72, 216, 115, 149, 164, 247, 2, 6, 10, 30, 34, 102, 170,
    229, 52, 92, 228, 55, 89, 235, 38, 106, 190, 217, 112, 144, 171, 230, 49,
    83, 245, 4, 12, 20, 60, 68, 204, 79, 209, 104, 184, 211, 110, 178, 205,
    76, 212, 103, 169, 224, 59, 77, 215, 98, 166, 241, 8, 24, 40, 120, 136,
    131, 158, 185, 208, 107, 189, 220, 127, 129, 152, 179, 206, 73, 219, 118, 154,
    181, 196, 87, 249, 16, 48, 80, 240, 11, 29, 39, 105, 187, 214, 97, 163,
    254, 25, 43, 125, 135, 146, 173, 236, 47, 113, 147, 174, 233, 32, 96, 160,
    251, 22, 58, 78, 210, 109, 183, 194, 93, 231, 50, 86, 250, 21, 63, 65,
    195, 94, 226, 61, 71, 201, 64, 192, 91, 237, 44, 116, 156, 191, 218, 117,
    159, 186, 213, 100, 172, 239, 42, 126, 130, 157, 188, 223, 122, 142, 137, 128,
    155, 182, 193, 88, 232, 35, 101, 175, 234, 37, 111, 177, 200, 67, 197, 84,
    252, 31, 33, 99, 165, 244, 7, 9, 27, 45, 119, 153, 176, 203, 70, 202,
    69, 207, 74, 222, 121, 139, 134, 145, 168, 227, 62, 66, 198, 81, 243, 14,
    18, 54, 90, 238, 41, 123, 141, 140, 143, 138, 133, 148, 167, 242, 13, 23,
    57, 75, 221, 124, 132, 151, 162, 253, 28, 36, 108, 180, 199, 82, 246, 1
>>

\* LOG[i + 1] is Rust's LOG[i]
LOG == <<
    0, 0, 25, 1, 50, 2, 26, 198, 75, 199, 27, 104, 51, 238, 223, 3,
    100, 4, 224, 14, 52, 141, 129, 239, 76, 113, 8, 200, 248, 105, 28, 193,
    125, 194, 29, 181, 249, 185, 39, 106, 77, 228, 166, 114, 154, 201, 9, 120,
    101, 47, 138, 5, 33, 15, 225, 36, 18, 240, 130, 69, 53, 147, 218, 142,
    150, 143, 219, 189, 54, 208, 206, 148, 19, 92, 210, 241, 64, 70, 131, 56,
    102, 221, 253, 48, 191, 6, 139, 98, 179, 37, 226, 152, 34, 136, 145, 16,
    126, 110, 72, 195, 163, 182, 30, 66, 58, 107, 40, 84, 250, 133, 61, 186,
    43, 121, 10, 21, 155, 159, 94, 202, 78, 212, 172, 229, 243, 115, 167, 87,
    175, 88, 168, 80, 244, 234, 214, 116, 79, 174, 233, 213, 231, 230, 173, 232,
    44, 215, 117, 122, 235, 22, 11, 245, 89, 203, 95, 176, 156, 169, 81, 160,
    127, 12, 246, 111, 23, 196, 73, 236, 216, 67, 31, 45, 164, 118, 123, 183,
    204, 187, 62, 90, 251, 96, 177, 134, 59, 82, 161, 108, 170, 85, 41, 157,
    151, 178, 135, 144, 97, 190, 220, 252, 188, 149, 207, 205, 55, 63, 91, 209,
    83, 57, 132, 60, 65, 162, 109, 71, 20, 42, 158, 93, 86, 242, 211, 171,
    68, 17, 146, 217, 35, 32, 46, 137, 180, 124, 184, 38, 119, 153, 227, 165,
    103, 74, 237, 222, 197, 49, 254, 24, 13, 99, 140, 128, 192, 247, 112, 7
>>

\* the term entry i of LOG adds to x: LOG[i] * m, m = 1 only when i = n
log_term(n, i) ==
    LET z == Xor(i + 1, n + 1)
        m == one_wrapping_shr(count_zeros(z))
    IN  LOG[i + 1] * m

\* the loop of constant_log over entries lo .. hi (isize additions, no overflow)
RECURSIVE log_scan(_, _, _)
log_scan(n, lo, hi) ==
    IF lo = hi THEN log_term(n, lo)
    ELSE LET mid == (lo + hi) \div 2
         IN  log_scan(n, lo, mid) + log_scan(n, mid + 1, hi)

constant_log(n) == log_scan(n, 0, Len(LOG) - 1)

\* the term entry i of EXP adds to x: v * m as u8
exp_term(n, i) ==
    LET z == Xor(i + 1, n + 1)
        m == one_wrapping_shr(count_zeros(z))
    IN  EXP[i + 1] * (m % 256)

\* the loop of constant_exp over entries lo .. hi (u8 wrapping_add)
RECURSIVE exp_scan(_, _, _)
exp_scan(n, lo, hi) ==
    IF lo = hi THEN exp_term(n, lo)
    ELSE LET mid == (lo + hi) \div 2
         IN  (exp_scan(n, lo, mid) + exp_scan(n, mid + 1, hi)) % 256

constant_exp(n) == exp_scan(n, 0, Len(EXP) - 1)

\* the two scans, evaluated once per argument
LogTbl == [n \in Byte |-> constant_log(n)]

ExpTbl == [n \in Byte |-> constant_exp(n)]

\* one run of a scan: its loop visits every entry of the table
Scan(name, table) == [fn |-> name, iterations |-> Len(table)]

\* mul with the sum of the logarithms reduced modulo 256
mul_mod256(e, a) ==
    IF e = 0 \/ a = 0 THEN 0
    ELSE LET l0 == LogTbl[e]
             l1 == LogTbl[a]
             v  == (l0 + l1) % 256
         IN  ExpTbl[v]

mul(e, a) ==
    IF e = 0 \/ a = 0 THEN 0
    ELSE LET l0 == LogTbl[e]
             l1 == LogTbl[a]
             v  == (l0 + l1) % 255
         IN  ExpTbl[v]

\* the table scans mul runs: none when an operand is 0
mul_steps(e, a) ==
    IF e = 0 \/ a = 0 THEN << >>
    ELSE <<Scan("constant_log", LOG), Scan("constant_log", LOG), Scan("constant_exp", EXP)>>

\* div with the check of the dividend ahead of the check of the divisor
div_zero_first(e, a) ==
    IF e = 0 THEN Ok(0)
    ELSE IF a = 0 THEN Panicked
    ELSE LET l0 == LogTbl[e]
             l1 == LogTbl[a]
         IN  Ok(ExpTbl[(l0 - l1) % 255])

\* div with the absolute difference of the logarithms as the index
div_no_rem(e, a) ==
    IF a = 0 THEN Panicked
    ELSE IF e = 0 THEN Ok(0)
    ELSE LET l0 == LogTbl[e]
             l1 == LogTbl[a]
         IN  Ok(ExpTbl[IF l0 >= l1 THEN l0 - l1 ELSE l1 - l0])

div(e, a) ==
    IF a = 0 THEN Panicked
    ELSE IF e = 0 THEN Ok(0)
    ELSE LET l0 == LogTbl[e]
             l1 == LogTbl[a]
         IN  Ok(ExpTbl[(l0 - l1) % 255])

\* the table scans div runs
div_steps(e, a) ==
    IF a = 0 THEN << >>
    ELSE IF e = 0 THEN << >>
    ELSE <<Scan("constant_log", LOG), Scan("constant_log", LOG), Scan("constant_exp", EXP)>>

MulTbl == [e \in Byte |-> [a \in Byte |-> mul(e, a)]]

\* mul on two u8
BMul(e, a) == MulTbl[e][a]

----------------------------------------------------------------------------
(* poly.rs                                                                 *)

\* p.iter().rev().fold(0, |res, &v| mul(res, x) ^ v), coefficients i .. 1 left
RECURSIVE eval_fold(_, _, _, _)
eval_fold(p, x, i, res) ==
    IF i = 0 THEN res
    ELSE eval_fold(p, x, i - 1, BXor(BMul(res, x), p[i]))

\* p[i + 1] is Rust's p[i]
eval(p, x) == eval_fold(p, x, Len(p), 0)

\* what rng.gen_range(1, 255) can return: low inclusive, high exclusive
GenRange == 1 .. 254

\* rng is what the generator hands out during the call: fill, the bytes
\* written by fill_bytes, and range, the value returned by gen_range.
\* The slice p[1..n] does not exist for n = 0 and indexing it panics.
generate(n, y, rng) ==
    IF 1 > n THEN Panicked
    ELSE Ok([i \in 1 .. n + 1 |->
                IF i = 1 THEN y
                ELSE IF i <= n THEN rng.fill[i - 1]
                ELSE rng.range])

\* the inner loop of y_intercept for point i, from point j on
RECURSIVE weight_loop(_, _, _, _)
weight_loop(points, i, j, weight) ==
    IF j > Len(points) THEN Ok(weight)
    ELSE IF i = j THEN weight_loop(points, i, j + 1, weight)
    ELSE LET ax == points[i][1]
             bx == points[j][1]
             d  == div(bx, BXor(ax, bx))
         IN  IF d.panic THEN Panicked
             ELSE weight_loop(points, i, j + 1, BMul(weight, d.val))

\* the outer loop of y_intercept, from point i on
RECURSIVE value_loop(_, _, _)
value_loop(points, i, value) ==
    IF i > Len(points) THEN Ok(value)
    ELSE LET ay == points[i][2]
             w  == weight_loop(points, i, 1, 1)
         IN  IF w.panic THEN Panicked
             ELSE value_loop(points, i + 1, BXor(value, BMul(w.val, ay)))

\* y_intercept with the weight of point i taken over the later points only
RECURSIVE value_loop_later(_, _, _)
value_loop_later(points, i, value) ==
    IF i > Len(points) THEN Ok(value)
    ELSE LET ay == points[i][2]
             w  == weight_loop(points, i, i + 1, 1)
         IN  IF w.panic THEN Panicked
             ELSE value_loop_later(points, i + 1, BXor(value, BMul(w.val, ay)))

y_intercept_later(points) == value_loop_later(points, 1, 0)

y_intercept(points) == value_loop(points, 1, 0)

----------------------------------------------------------------------------
(* lib.rs                                                                  *)

\* the polynomials of split: generate((k - 1) as usize, b, rng) for each byte
\* b of the secret; rng[i] is what the generator hands out to the i-th call
split_polys(k, secret, rng) ==
    [i \in 1 .. Len(secret) |-> generate(k - 1, secret[i], rng[i])]

\* split with the share IDs counted from 0
split_from_zero(n, k, secret, rng) ==
    LET gen == split_polys(k, secret, rng)
    IN  IF \E i \in 1 .. Len(secret) : gen[i].panic THEN Panicked
        ELSE Ok([id \in 0 .. n - 1 |->
                    [i \in 1 .. Len(secret) |-> eval(gen[i].val, id)]])

split(n, k, secret, rng) ==
    LET gen == split_polys(k, secret, rng)
    IN  IF \E i \in 1 .. Len(secret) : gen[i].panic THEN Panicked
        ELSE Ok([id \in 1 .. n |->
                    [i \in 1 .. Len(secret) |-> eval(gen[i].val, id)]])

\* order lists the keys of shares the way the HashMap iterates over them
combine(map, order) ==
    IF Len(order) = 0 THEN Panicked
    ELSE LET len == Len(map[order[1]])
         IN  IF \E j \in 1 .. Len(order) : Len(map[order[j]]) # len
             THEN Panicked
             ELSE LET byte(i) ==
                          y_intercept([j \in 1 .. Len(order) |->
                                          <<order[j], map[order[j]][i]>>])
                  IN  IF \E i \in 1 .. len : byte(i).panic THEN Panicked
                      ELSE Ok([i \in 1 .. len |-> byte(i).val])

----------------------------------------------------------------------------
(* Bounds and the values the arguments are drawn from.                     *)

MaxShares == 3

MaxThreshold == 3

MaxLen == 2

MaxDegree == 3

MaxPoints == 3

SecretBytes == {0, 83}

\* bytes fill_bytes writes
FillBytes == {0, 1}

\* values gen_range returns
RangeValues == {1, 254}

DivisorBytes == {0, 1, 2, 255}

OperandBytes == {0, 1, 2, 3, 83, 128, 254, 255}

XBytes == {0, 1, 2, 255}

YBytes == {0, 83, 255}

ShareIds == {1, 2, 255}

ShareBytes == {0, 83}

SeqsUpTo(S, m) == UNION {[1 .. l -> S] : l \in 0 .. m}

\* the enumerations of the set S, each element once
Perms(S) ==
    {f \in [1 .. Cardinality(S) -> S] :
        \A i, j \in 1 .. Cardinality(S) : i # j => f[i] # f[j]}

\* what the generator hands out to one call of generate(n, ..)
RngOutputs(n) ==
    [fill : [1 .. (IF n > 1 THEN n - 1 ELSE 0) -> FillBytes], range : RangeValues]

Idle ==
    /\ pc = "ready"
    /\ ret = NoRet
    /\ steps = << >>
    /\ polys = << >>
    /\ splits = << >>
    /\ shares = << >>
    /\ iter = << >>

----------------------------------------------------------------------------
(* SpecField: mul and div on every pair of bytes.                          *)

FieldCases == [fn : {"field"}, e : Byte, a : Byte]

InitField == args \in FieldCases /\ Idle

Mul ==
    /\ pc = "ready"
    /\ args.fn = "field"
    /\ pc' = "mul"
    /\ ret' = Ok(mul(args.e, args.a))
    /\ steps' = mul_steps(args.e, args.a)
    /\ UNCHANGED <<args, polys, splits, shares, iter>>

Div ==
    /\ pc = "ready"
    /\ args.fn = "field"
    /\ pc' = "div"
    /\ ret' = div(args.e, args.a)
    /\ steps' = div_steps(args.e, args.a)
    /\ UNCHANGED <<args, polys, splits, shares, iter>>

NextField == Mul \/ Div

SpecField == InitField /\ [][NextField]_vars

----------------------------------------------------------------------------
(* SpecTiming: one call of mul or div after another.                       *)

InitTiming == args = [fn |-> "none"] /\ Idle

MulAgain ==
    \E e \in OperandBytes, a \in OperandBytes :
        /\ args' = [fn |-> "field", e |-> e, a |-> a]
        /\ pc' = "mul"
        /\ ret' = Ok(mul(e, a))
        /\ steps' = mul_steps(e, a)
        /\ UNCHANGED <<polys, splits, shares, iter>>

DivAgain ==
    \E e \in OperandBytes, a \in OperandBytes :
        /\ args' = [fn |-> "field", e |-> e, a |-> a]
        /\ pc' = "div"
        /\ ret' = div(e, a)
        /\ steps' = div_steps(e, a)
        /\ UNCHANGED <<polys, splits, shares, iter>>

NextTiming == MulAgain \/ DivAgain

SpecTiming == InitTiming /\ [][NextTiming]_vars

----------------------------------------------------------------------------
(* SpecCalls: single calls of generate, div, y_intercept and combine.      *)

DivCases == [fn : {"field"}, e : Byte, a : DivisorBytes]

GenerateCases ==
    UNION {[fn : {"generate"}, n : {n}, y : Byte, rng : RngOutputs(n)] :
              n \in 0 .. MaxDegree}

YInterceptCases ==
    [fn : {"y_intercept"}, points : SeqsUpTo(XBytes \X YBytes, MaxPoints)]

CombineCases ==
    UNION {[fn : {"combine"},
            shares : [keys -> SeqsUpTo(ShareBytes, MaxLen)],
            order : Perms(keys)] : keys \in SUBSET ShareIds}

InitCalls ==
    /\ args \in DivCases \cup GenerateCases \cup YInterceptCases \cup CombineCases
    /\ Idle

Generate ==
    /\ pc = "ready"
    /\ args.fn = "generate"
    /\ pc' = "generate"
    /\ ret' = generate(args.n, args.y, args.rng)
    /\ UNCHANGED <<args, steps, polys, splits, shares, iter>>

YIntercept ==
    /\ pc = "ready"
    /\ args.fn = "y_intercept"
    /\ pc' = "y_intercept"
    /\ ret' = y_intercept(args.points)
    /\ UNCHANGED <<args, steps, polys, splits, shares, iter>>

Combine ==
    /\ pc = "ready"
    /\ args.fn = "combine"
    /\ pc' = "combine"
    /\ shares' = args.shares
    /\ iter' = args.order
    /\ ret' = combine(args.shares, args.order)
    /\ UNCHANGED <<args, steps, polys, splits>>

NextCalls == Div \/ Generate \/ YIntercept \/ Combine

SpecCalls == InitCalls /\ [][NextCalls]_vars

----------------------------------------------------------------------------
(* Spec: split, the selection of some of the shares, and their combine.    *)

Init ==
    /\ \E n \in 1 .. MaxShares, k \in 1 .. MaxThreshold,
          secret \in SeqsUpTo(SecretBytes, MaxLen) :
          /\ k <= n
          /\ \E rng \in [1 .. Len(secret) -> RngOutputs(k - 1)] :
                args = [fn |-> "split", n |-> n, k |-> k,
                        secret |-> secret, rng |-> rng]
    /\ Idle

Split ==
    /\ pc = "ready"
    /\ args.fn = "split"
    /\ pc' = "split"
    /\ LET gen == split_polys(args.k, args.secret, args.rng)
           res == split(args.n, args.k, args.secret, args.rng)
       IN  /\ ret' = res
           /\ polys' = IF res.panic THEN << >>
                       ELSE [i \in 1 .. Len(args.secret) |-> gen[i].val]
           /\ splits' = IF res.panic THEN << >> ELSE res.val
    /\ UNCHANGED <<args, steps, shares, iter>>

\* the caller keeps the shares with the IDs in keys
Select ==
    /\ pc = "split"
    /\ ~ret.panic
    /\ \E keys \in SUBSET (DOMAIN splits) :
          shares' = [id \in keys |-> splits[id]]
    /\ pc' = "select"
    /\ UNCHANGED <<args, ret, steps, polys, splits, iter>>

CombineSelected ==
    /\ pc = "select"
    /\ \E order \in Perms(DOMAIN shares) :
          /\ iter' = order
          /\ ret' = combine(shares, order)
    /\ pc' = "combine"
    /\ UNCHANGED <<args, steps, polys, splits, shares>>

Next == Split \/ Select \/ CombineSelected

Spec == Init /\ [][Next]_vars

----------------------------------------------------------------------------
(* The product in GF(2^8) modulo x^8 + x^4 + x^3 + x + 1, by shift and add, *)
(* and the value of a polynomial as the sum of its terms.                  *)

\* x^8 = x^4 + x^3 + x + 1
Reduce == 27

xtime(x) == IF x >= 128 THEN Xor((2 * x) % 256, Reduce) ELSE 2 * x

RECURSIVE clmul(_, _, _, _)
clmul(x, y, p, i) ==
    IF i = 8 THEN p
    ELSE clmul(xtime(x), y \div 2, IF y % 2 = 1 THEN Xor(p, x) ELSE p, i + 1)

GFProduct(x, y) == clmul(x, y, 0, 0)

RECURSIVE GFPower(_, _)
GFPower(x, i) == IF i = 0 THEN 1 ELSE GFProduct(GFPower(x, i - 1), x)

\* p[1] + p[2] x + ... + p[i] x^(i - 1)
RECURSIVE PolyValue(_, _, _)
PolyValue(p, x, i) ==
    IF i = 0 THEN 0
    ELSE Xor(GFProduct(p[i], GFPower(x, i - 1)), PolyValue(p, x, i - 1))

----------------------------------------------------------------------------
(* Field arithmetic.                                                       *)

\* C5: mul(e, a) is the GF(2^8) product of e and a modulo 0x11b for every
\* pair of bytes; in particular mul(x, 0) = mul(0, x) = 0.
MulIsFieldProduct ==
    pc = "mul" =>
        /\ ~ret.panic
        /\ ret.val = GFProduct(args.e, args.a)
        /\ (args.e = 0 \/ args.a = 0) => ret.val = 0

\* two nonzero operands whose logarithms add up to 255 or more
MulNonzeroWrapped ==
    /\ pc = "mul"
    /\ args.e # 0
    /\ args.a # 0
    /\ LogTbl[args.e] + LogTbl[args.a] >= 255
    /\ ret.val = GFProduct(args.e, args.a)

\* C6: for every byte e and every nonzero byte a, mul(div(e, a), a) = e and
\* div(mul(e, a), a) = e, and div(0, a) = 0.
DivMulInverse ==
    (pc = "div" /\ args.a # 0) =>
        /\ ~ret.panic
        /\ mul(ret.val, args.a) = args.e
        /\ div(mul(args.e, args.a), args.a) = Ok(args.e)
        /\ args.e = 0 => ret.val = 0

\* a quotient whose logarithm difference is negative
DivNonzeroNegativeLog ==
    /\ pc = "div"
    /\ args.e # 0
    /\ args.a # 0
    /\ LogTbl[args.e] < LogTbl[args.a]
    /\ mul(ret.val, args.a) = args.e

\* C8: two calls of mul, or two calls of div with nonzero divisors, run the
\* same table scans and loop iterations whatever the operands are.
SameStepsWhateverOperands ==
    [][(/\ pc \in {"mul", "div"}
        /\ pc' = pc
        /\ pc = "div" => (args.a # 0 /\ args'.a # 0))
       => steps' = steps]_vars

----------------------------------------------------------------------------
(* Polynomials.                                                            *)

\* C4: generate(n, y, rng) returns, for every degree n >= 0, a polynomial of
\* n + 1 coefficients whose coefficient 0 is y and whose last coefficient is
\* not 0.
GenerateShape ==
    pc = "generate" =>
        /\ ~ret.panic
        /\ Len(ret.val) = args.n + 1
        /\ ret.val[1] = args.y
        /\ ret.val[args.n + 1] # 0

DistinctX(points) ==
    \A i, j \in 1 .. Len(points) : i # j => points[i][1] # points[j][1]

SameLengths(map) ==
    \A id1, id2 \in DOMAIN map : Len(map[id1]) = Len(map[id2])

\* C7: div(e, 0) panics for every e, y_intercept panics on every list with
\* two points of the same x, combine panics on the empty map and on every
\* map with two shares of different lengths; none of them returns a value.
DomainErrorsReported ==
    /\ (pc = "div" /\ args.a = 0) => ret.panic
    /\ (pc = "y_intercept" /\ ~DistinctX(args.points)) => ret.panic
    /\ (pc = "combine" /\ (DOMAIN shares = {} \/ ~SameLengths(shares)))
           => ret.panic

\* the first and the last of three points share their x, with different y
DuplicateXApart ==
    /\ pc = "y_intercept"
    /\ Len(args.points) = 3
    /\ args.points[1][1] = args.points[3][1]
    /\ args.points[1][1] # args.points[2][1]
    /\ args.points[1][2] # args.points[3][2]
    /\ ret.panic

Permuted(points, f) == [j \in 1 .. Len(points) |-> points[f[j]]]

\* C10: y_intercept returns the same byte for every permutation of a list of
\* points with pairwise distinct x, and combine returns the same bytes for
\* every iteration order of the share map.
OrderIrrelevant ==
    /\ (pc = "y_intercept" /\ DistinctX(args.points)) =>
           \A f \in Perms(1 .. Len(args.points)) :
               y_intercept(Permuted(args.points, f)) = ret
    /\ pc = "combine" =>
           \A order \in Perms(DOMAIN shares) : combine(shares, order) = ret

\* three points with distinct x whose intercept is none of their y
ThreePointsInterpolated ==
    /\ pc = "y_intercept"
    /\ Len(args.points) >= 3
    /\ DistinctX(args.points)
    /\ ~ret.panic
    /\ \A j \in 1 .. Len(args.points) : ret.val # args.points[j][2]

----------------------------------------------------------------------------
(* split and combine.                                                      *)

\* C1: split(n, k, secret) returns a share map for 1 <= k <= n, and combine
\* of any k or more of its shares returns the secret.
RoundTrip ==
    /\ pc = "split" => ~ret.panic
    /\ (pc = "combine" /\ Cardinality(DOMAIN shares) >= args.k) =>
           (~ret.panic /\ ret.val = args.secret)

\* every polynomial generate(n, y, ..) can return
GenerateOutputs(n, y) ==
    {generate(n, y, rng).val :
        rng \in {r \in [fill : [1 .. (IF n > 1 THEN n - 1 ELSE 0) -> Byte],
                        range : GenRange] : ~generate(n, y, r).panic}}

\* C2: the values the holders of fewer than k shares see at some byte of
\* the secret can be produced by split for every other value of that byte.
FewerSharesRevealNothing ==
    (pc = "select" /\ Cardinality(DOMAIN shares) < args.k) =>
        \A i \in 1 .. Len(args.secret) :
            \A s \in Byte :
                \E p \in GenerateOutputs(args.k - 1, s) :
                    \A id \in DOMAIN shares : eval(p, id) = shares[id][i]

\* C3: combine of a non-empty set of fewer than k shares of split(n, k,
\* secret) returns bytes different from the secret.
TooFewSharesMissSecret ==
    (/\ pc = "combine"
     /\ DOMAIN shares # {}
     /\ Cardinality(DOMAIN shares) < args.k)
    => (~ret.panic /\ ret.val # args.secret)

\* C9: the map returned by split(n, k, secret) has the keys 1 .. n, every
\* share is as long as the secret, and byte i of share id is the value at id
\* of the polynomial generated for byte i, whose constant term is that byte.
SplitShape ==
    (pc = "split" /\ ~ret.panic) =>
        /\ DOMAIN ret.val = 1 .. args.n
        /\ 0 \notin DOMAIN ret.val
        /\ Len(polys) = Len(args.secret)
        /\ \A i \in 1 .. Len(args.secret) :
               /\ Len(polys[i]) = args.k
               /\ polys[i][1] = args.secret[i]
        /\ \A id \in DOMAIN ret.val :
               /\ Len(ret.val[id]) = Len(args.secret)
               /\ \A i \in 1 .. Len(args.secret) :
                      ret.val[id][i] = PolyValue(polys[i], id, Len(polys[i]))

\* three or more shares of a secret of two different bytes
SplitOfTwoBytes ==
    /\ pc = "split"
    /\ ~ret.panic
    /\ args.n >= 3
    /\ args.k >= 2
    /\ Len(args.secret) >= 2
    /\ args.secret[1] # args.secret[2]
    /\ DOMAIN ret.val = 1 .. args.n

====
